---- MODULE Spec2Model ----
(***************************************************************************)
(* godi: the scoped registration/resolution engine.                        *)
(*                                                                         *)
(* A reflect.Type is modelled by the token sequence of its "%v" rendering: *)
(* <<"*", "godi.T1">> is *godi.T1.  A type name is such a sequence with    *)
(* the "*" tokens removed (formatType).  An object is its address (a       *)
(* natural number, 0 is nil).  Contexts (scopes) and registrations         *)
(* (bindings) are heap objects named by their index / id.                  *)
(***************************************************************************)
EXTENDS Integers, Sequences, FiniteSets, TLC

VARIABLES
    typeMap,              \* the type catalog: name -> reflect.Type
    registrationCounter,  \* the id counter of registrations
    currentContext,       \* the process-wide current scope
    contexts,             \* the heap of registrationContext objects
    regs,                 \* the heap of typeRegistration objects, by id
    tokens,               \* the RegistrationTokens handed out, by registration id
    heapTop,              \* the number of objects allocated so far
    callers               \* the goroutines of a concurrent Resolve

vars == <<typeMap, registrationCounter, currentContext, contexts, regs,
          tokens, heapTop, callers>>

-----------------------------------------------------------------------------
\* Bounds of the model

MaxRegs == 3
MaxScopes == 3
MaxObjs == 2
MaxInits == 1
MaxCallers == 2
MaxFurtherInits == 1
MaxCallbackRegs == 1

-----------------------------------------------------------------------------
\* reflect.Type, type names

NilType == <<>>

PtrTo(t) == <<"*">> \o t

IsPtr(t) == t # <<>> /\ Head(t) = "*"

Elem(t) == Tail(t)

NotStar(c) == c # "*"

formatType(typeName) == SelectSeq(typeName, NotStar)

typeToString(t) == formatType(t)

\* The types of the test suite.
I1 == <<"godi.I1">>
I2 == <<"godi.I2">>
Initializable == <<"godi.Initializable">>
T1 == <<"godi.T1">>
T2 == <<"godi.T2">>
T3 == <<"godi.T3">>
\* a caller's type with F1 and a GodiInit that returns an error
T4 == <<"godi.T4">>

InterfaceMethods(t) ==
    IF t = I1 THEN {"F1"}
    ELSE IF t = I2 THEN {"Bar"}
    ELSE IF t = Initializable THEN {"GodiInit"}
    ELSE {}

IsInterface(t) == t \in {I1, I2, Initializable}

ValueMethods(t) ==
    IF t = T1 THEN {"F1"}
    ELSE IF t = T2 THEN {"F1", "F2"}
    ELSE IF t = T3 THEN {"F1"}
    ELSE IF t = T4 THEN {"F1"}
    ELSE {}

PointerMethods(t) == IF t \in {T3, T4} THEN {"GodiInit"} ELSE {}

\* init.GodiInit() returns an error
GodiInitFails(t) == t = T4

\* Go's method sets: T has the value-receiver methods, *T has those and the
\* pointer-receiver methods, a pointer to an interface or to a pointer none.
MethodSet(t) ==
    IF IsInterface(t) THEN InterfaceMethods(t)
    ELSE IF ~IsPtr(t) THEN ValueMethods(t)
    ELSE IF ~IsPtr(Elem(t)) /\ ~IsInterface(Elem(t))
         THEN ValueMethods(Elem(t)) \cup PointerMethods(Elem(t))
    ELSE {}

Implements(impl, target) == InterfaceMethods(target) \subseteq MethodSet(impl)

\* A Go value passed as interface{}: its dynamic type, and, when the value is
\* itself a reflect.Type, that type.
Val(t) == [dyn |-> t, asType |-> NilType]
TypeVal(t) == [dyn |-> <<"*", "reflect.rtype">>, asType |-> t]
RTypeName == <<"reflect.rtype">>

ExtractType(val) ==
    LET t0 == IF typeToString(val.dyn) # RTypeName THEN val.dyn ELSE val.asType
        t  == IF IsPtr(t0) THEN Elem(t0) ELSE t0
    IN  [t |-> t, name |-> typeToString(t)]

instanceToType(instance) == ExtractType(instance).t

newtypeInfo(typeName, reflectType) ==
    IF reflectType # NilType
    THEN [typeName |-> typeToString(reflectType), reflectType |-> reflectType]
    ELSE [typeName |-> formatType(typeName), reflectType |-> NilType]

TypeOf(ti) ==
    \* typeInfo.Type(): the handle, looked up in the catalog when the typeInfo
    \* was made from a name; NilType stands for the panic of a missing name.
    IF ti.reflectType # NilType THEN ti.reflectType
    ELSE IF ti.typeName \in DOMAIN typeMap THEN typeMap[ti.typeName]
    ELSE NilType

-----------------------------------------------------------------------------
\* Per-registration callbacks and registered initializers (caller-supplied code)

NoCallback == "nil"

Callbacks == {"continue", "stop", "continueErr", "stopErr"}

CallbackContinue(cb) == cb \in {"continue", "continueErr"}

CallbackError(cb) == cb \in {"continueErr", "stopErr"}

Initializers == {"TestInitializer", "Replacer", "Failer"}

CanInitialize(init, typeName) ==
    IF init = "TestInitializer" THEN typeName = T1
    ELSE IF init = "Replacer" THEN typeName \in {T1, T3}
    ELSE typeName = T3

\* Initialize returns the instance it was passed, another object, or an error.
InitializeResult(init) ==
    IF init = "TestInitializer" THEN "same"
    ELSE IF init = "Replacer" THEN "replace"
    ELSE "error"

-----------------------------------------------------------------------------
\* registrationContext

RootContext == 1

NilContext == 0

Names == {I1, Initializable}

NoLock == [w |-> FALSE, r |-> 0]

EmptyRegistrations == [n \in Names |-> <<>>]

newregistrationContext(parent) ==
    [parent |-> parent, registrations |-> EmptyRegistrations,
     initializers |-> <<>>, onclose |-> FALSE]

\* the scope's list for a name; a name that was never a key has no list
ListOf(p, typeName) ==
    IF typeName \in Names THEN contexts[p].registrations[typeName] ELSE <<>>

addRegistrationAtBack(p, reg) ==
    [contexts EXCEPT ![p].registrations[reg.targetType.typeName] = Append(@, reg.id)]

addRegistration(p, reg) ==
    [contexts EXCEPT ![p].registrations[reg.targetType.typeName] = <<reg.id>> \o @]

findRegistration(p, typeName) ==
    LET l == ListOf(p, formatType(typeName))
    IN  IF l = <<>> THEN 0 ELSE Head(l)

\* the list without its first registration of the given id; the elements of
\* a list are the registrations' places in regs
RECURSIVE RemoveFirst(_, _)
RemoveFirst(l, id) ==
    IF l = <<>> THEN <<>>
    ELSE IF regs[Head(l)].id = id THEN Tail(l)
    ELSE <<Head(l)>> \o RemoveFirst(Tail(l), id)

removeRegistrationHead(p, reg) ==
    LET tn == reg.targetType.typeName
    IN  IF contexts[p].registrations[tn] = <<>> THEN contexts
        ELSE [contexts EXCEPT ![p].registrations[tn] = Tail(@)]

removeRegistration(p, reg) ==
    LET tn == reg.targetType.typeName
    IN  [contexts EXCEPT ![p].registrations[tn] = RemoveFirst(@, reg.id)]

-----------------------------------------------------------------------------
\* typeRegistration.realize, run to completion by one goroutine.
\*   out = "ok":      instance, created
\*   out = "panic":   create() found no type for the implementor's name
\*   out = "blocked": the lock is held by nobody who will release it
\* reg is the registration as the call leaves it (instance, resolved type, lock).

realize(reg, top) ==
    LET t == TypeOf(reg.implType)
        made == [reg EXCEPT !.implType.reflectType = t]
    IN  IF reg.lock.w THEN
            \* p.lock.RLock() never returns
            [out |-> "blocked", instance |-> 0, created |-> FALSE, reg |-> reg, top |-> top]
        ELSE IF reg.cached /\ reg.instance = 0 THEN
            \* needsCachedInstance: RUnlock, Lock, re-check, create, store;
            \* the Unlock is deferred only after create() has returned
            IF t = NilType THEN
                [out |-> "panic", instance |-> 0, created |-> FALSE,
                 reg |-> [reg EXCEPT !.lock.w = TRUE], top |-> top]
            ELSE
                [out |-> "ok", instance |-> top + 1, created |-> TRUE,
                 reg |-> [made EXCEPT !.instance = top + 1], top |-> top + 1]
        ELSE IF ~reg.cached THEN
            \* the RUnlock is deferred before create() is called
            IF t = NilType THEN
                [out |-> "panic", instance |-> 0, created |-> FALSE, reg |-> reg, top |-> top]
            ELSE
                [out |-> "ok", instance |-> top + 1, created |-> TRUE,
                 reg |-> made, top |-> top + 1]
        ELSE
            [out |-> "ok", instance |-> reg.instance, created |-> FALSE, reg |-> reg, top |-> top]

-----------------------------------------------------------------------------
\* registrationContext.initializeInstance
\*   kind = "ok": obj is returned; "error": err is returned; "panic": the call panics
\*   trace lists the calls made to caller-supplied code, in order

RECURSIVE AskInitializersLast(_, _, _, _)
\* a loop that asks every initializer and lets the last that can initialize
AskInitializersLast(l, i, instance, typeName) ==
    IF i > Len(l) THEN [matched |-> FALSE, init |-> "", trace |-> <<>>]
    ELSE LET rest == AskInitializersLast(l, i + 1, instance, typeName)
         IN  IF rest.matched \/ ~CanInitialize(l[i], typeName)
             THEN [rest EXCEPT !.trace = << <<"CanInitialize", l[i]>> >> \o @]
             ELSE [matched |-> TRUE, init |-> l[i],
                   trace |-> << <<"CanInitialize", l[i]>> >> \o rest.trace
                             \o << <<"Initialize", l[i]>> >>]

RECURSIVE AskInitializers(_, _, _, _)
\* the loop over p.initializers from position i: the first that can, does
AskInitializers(l, i, instance, typeName) ==
    IF i > Len(l) THEN [matched |-> FALSE, init |-> "", trace |-> <<>>]
    ELSE IF CanInitialize(l[i], typeName)
         THEN [matched |-> TRUE, init |-> l[i],
               trace |-> << <<"CanInitialize", l[i]>>, <<"Initialize", l[i]>> >>]
         ELSE LET rest == AskInitializers(l, i + 1, instance, typeName)
              IN  [rest EXCEPT !.trace = << <<"CanInitialize", l[i]>> >> \o @]

RECURSIVE initializeInstance(_, _, _, _)

\* an initialization that goes on whatever the callback answers
initializeInstanceUngated(p, instance, typeReg, top) ==
    LET cb == typeReg.initializer
        trCb == IF cb # NoCallback THEN << <<"callback", cb>> >> ELSE <<>>
        isInitializable == Implements(PtrTo(typeReg.implType.reflectType), Initializable)
        trInit == IF isInitializable
                  THEN << <<"GodiInit", typeReg.implType.typeName[1]>> >> ELSE <<>>
        asked == AskInitializers(contexts[p].initializers, 1, instance,
                                 typeReg.implType.typeName)
    IN  IF isInitializable /\ GodiInitFails(typeReg.implType.reflectType) THEN
            [kind |-> "panic", err |-> "InitializationFailure", obj |-> 0,
             trace |-> trCb \o trInit, top |-> top]
        ELSE IF asked.matched THEN
            LET pre == trCb \o trInit \o asked.trace
            IN  IF InitializeResult(asked.init) = "same" THEN
                    [kind |-> "ok", err |-> "", obj |-> instance, trace |-> pre, top |-> top]
                ELSE IF InitializeResult(asked.init) = "replace" THEN
                    [kind |-> "ok", err |-> "", obj |-> top + 1, trace |-> pre,
                     top |-> top + 1]
                ELSE
                    [kind |-> "error", err |-> "InitializerError", obj |-> 0,
                     trace |-> pre, top |-> top]
        ELSE IF contexts[p].parent # NilContext THEN
            LET up == initializeInstance(contexts[p].parent, instance, typeReg, top)
            IN  [up EXCEPT !.trace = trCb \o trInit \o asked.trace \o @]
        ELSE
            [kind |-> "ok", err |-> "", obj |-> instance,
             trace |-> trCb \o trInit \o asked.trace, top |-> top]

initializeInstance(p, instance, typeReg, top) ==
    LET cb == typeReg.initializer
        callInitializers == IF cb # NoCallback THEN CallbackContinue(cb) ELSE TRUE
        err == cb # NoCallback /\ CallbackError(cb)
        trCb == IF cb # NoCallback THEN << <<"callback", cb>> >> ELSE <<>>
        isInitializable == Implements(PtrTo(typeReg.implType.reflectType), Initializable)
        trInit == IF isInitializable
                  THEN << <<"GodiInit", typeReg.implType.typeName[1]>> >> ELSE <<>>
        asked == AskInitializers(contexts[p].initializers, 1, instance,
                                 typeReg.implType.typeName)
    IN  IF err /\ ~callInitializers THEN
            [kind |-> "panic", err |-> "InitializationFailure", obj |-> 0,
             trace |-> trCb, top |-> top]
        ELSE IF ~callInitializers THEN
            [kind |-> "ok", err |-> "", obj |-> instance, trace |-> trCb, top |-> top]
        ELSE IF isInitializable /\ GodiInitFails(typeReg.implType.reflectType) THEN
            [kind |-> "panic", err |-> "InitializationFailure", obj |-> 0,
             trace |-> trCb \o trInit, top |-> top]
        ELSE IF asked.matched THEN
            LET pre == trCb \o trInit \o asked.trace
            IN  IF InitializeResult(asked.init) = "same" THEN
                    [kind |-> "ok", err |-> "", obj |-> instance, trace |-> pre, top |-> top]
                ELSE IF InitializeResult(asked.init) = "replace" THEN
                    [kind |-> "ok", err |-> "", obj |-> top + 1, trace |-> pre,
                     top |-> top + 1]
                ELSE
                    [kind |-> "error", err |-> "InitializerError", obj |-> 0,
                     trace |-> pre, top |-> top]
        ELSE IF contexts[p].parent # NilContext THEN
            LET up == initializeInstance(contexts[p].parent, instance, typeReg, top)
            IN  [up EXCEPT !.trace = trCb \o trInit \o asked.trace \o @]
        ELSE
            [kind |-> "ok", err |-> "", obj |-> instance,
             trace |-> trCb \o trInit \o asked.trace, top |-> top]

-----------------------------------------------------------------------------
\* registrationContext.Resolve / resolveCore
\*   kind "ok" (obj), "error" (err), "panic" (err), "blocked" (never returns);
\*   reg, ctx: the registration materialized and the scope that held it;
\*   regs, top: the registration heap and the object heap after the call

RECURSIVE resolveCore(_, _, _)
RECURSIVE ctxResolve(_, _, _)

MaterializeAlwaysInitializes(p, id, top) ==
    \* initializeInstance called whether or not realize created the instance
    LET r == realize(regs[id], top)
        after == [regs EXCEPT ![id] = r.reg]
        i == initializeInstance(p, r.instance, r.reg, r.top)
    IN  IF r.out = "blocked" THEN
            [kind |-> "blocked", err |-> "", obj |-> 0, reg |-> id, ctx |-> p,
             created |-> FALSE, trace |-> <<>>, regs |-> after, top |-> r.top]
        ELSE IF r.out = "panic" THEN
            [kind |-> "panic", err |-> "UninitializedTypeReference", obj |-> 0,
             reg |-> id, ctx |-> p, created |-> FALSE, trace |-> <<>>,
             regs |-> after, top |-> r.top]
        ELSE
            [kind |-> i.kind, err |-> i.err, obj |-> i.obj, reg |-> id, ctx |-> p,
             created |-> r.created, trace |-> i.trace, regs |-> after, top |-> i.top]

Materialize(p, id, top) ==
    \* the "reg != nil" branch of resolveCore, the initializers run from scope p
    LET r == realize(regs[id], top)
        after == [regs EXCEPT ![id] = r.reg]
    IN  IF r.out = "blocked" THEN
            [kind |-> "blocked", err |-> "", obj |-> 0, reg |-> id, ctx |-> p,
             created |-> FALSE, trace |-> <<>>, regs |-> after, top |-> r.top]
        ELSE IF r.out = "panic" THEN
            [kind |-> "panic", err |-> "UninitializedTypeReference", obj |-> 0,
             reg |-> id, ctx |-> p, created |-> FALSE, trace |-> <<>>,
             regs |-> after, top |-> r.top]
        ELSE IF r.created THEN
            LET i == initializeInstance(p, r.instance, r.reg, r.top)
            IN  [kind |-> i.kind, err |-> i.err, obj |-> i.obj, reg |-> id, ctx |-> p,
                 created |-> TRUE, trace |-> i.trace, regs |-> after, top |-> i.top]
        ELSE
            [kind |-> "ok", err |-> "", obj |-> r.instance, reg |-> id, ctx |-> p,
             created |-> FALSE, trace |-> <<>>, regs |-> after, top |-> r.top]

NotFound(p, top) ==
    [kind |-> "error", err |-> "NotFound", obj |-> 0, reg |-> 0, ctx |-> p,
     created |-> FALSE, trace |-> <<>>, regs |-> regs, top |-> top]

RECURSIVE Owner(_, _)
\* the nearest scope from p upwards that holds a registration for the name
Owner(p, name) ==
    IF findRegistration(p, name) # 0 THEN p
    ELSE IF contexts[p].parent # NilContext THEN Owner(contexts[p].parent, name)
    ELSE NilContext

resolveCoreParentFirst(p, t, top) ==
    \* a resolution that prefers the parent's registration
    LET name == typeToString(t)
        up == contexts[p].parent
    IN  IF up # NilContext /\ Owner(up, name) # NilContext
        THEN ctxResolve(up, TypeVal(t), top)
        ELSE IF findRegistration(p, name) # 0
             THEN Materialize(p, findRegistration(p, name), top)
             ELSE NotFound(p, top)

resolveCoreInitHere(p, t, top) ==
    \* a resolution that takes the ancestor's registration and runs the
    \* initializers from the scope it was asked on
    LET name == typeToString(t)
        o == Owner(p, name)
    IN  IF o = NilContext THEN NotFound(p, top)
        ELSE [Materialize(p, findRegistration(o, name), top) EXCEPT !.ctx = o]

resolveCoreNoParent(p, t, top) ==
    \* a resolution that looks at the scope's own registrations only
    LET name == typeToString(t)
        reg == findRegistration(p, name)
    IN  IF reg # 0 THEN Materialize(p, reg, top) ELSE NotFound(p, top)

resolveCore(p, t, top) ==
    LET name == typeToString(t)
        reg == findRegistration(p, name)
    IN  IF reg = 0 /\ contexts[p].parent # NilContext
        THEN ctxResolve(contexts[p].parent, TypeVal(t), top)
        ELSE IF reg # 0 THEN Materialize(p, reg, top)
        ELSE NotFound(p, top)

ctxResolve(p, target, top) == resolveCore(p, instanceToType(target), top)

-----------------------------------------------------------------------------
\* What the callers pass in

\* (*I1)(nil), (*Initializable)(nil)
TargetVals == {Val(PtrTo(I1)), Val(PtrTo(Initializable))}

\* T1{}, T3{}
ImplVals == {Val(T1), Val(T3)}

\* t1 := &T1{...}; t3 := &T3{}: objects the caller built
Instances == {[addr |-> 1, val |-> Val(PtrTo(T1))], [addr |-> 2, val |-> Val(PtrTo(T3))]}

\* RegisterType((*I1)(nil)), RegisterType(T2{}), RegisterType((**T2)(nil))
CatalogVals == {Val(PtrTo(I1)), Val(T2), Val(PtrTo(PtrTo(T2)))}

\* RegisterByName("godi.I1", "godi.T2", ...), also written "*godi.I1"
ByNameTargets == {I1, PtrTo(I1)}
ByNameImplementors == {T2}

Scopes == 1..Len(contexts)

\* the scopes a caller holds a RegistrationContext for (CreateScope's results)
Handles == 2..Len(contexts)

-----------------------------------------------------------------------------
Init ==
    /\ typeMap = <<>>
    /\ registrationCounter = 0
    /\ contexts = <<newregistrationContext(NilContext)>>
    /\ currentContext = RootContext
    /\ regs = <<>>
    /\ tokens = <<>>
    /\ heapTop = Cardinality(Instances)
    /\ callers = <<>>

-----------------------------------------------------------------------------
\* The type catalog.  A call's result: kind "ok" or "error" (err), and the
\* catalog after it.

\* a RegisterType that stores the handle whatever the catalog holds
RegisterTypeOverwrite(val) ==
    LET e == ExtractType(val)
    IN  [kind |-> "ok", err |-> "", typeMap |-> (e.name :> e.t) @@ typeMap]

RegisterTypeResult(val) ==
    LET e == ExtractType(val)
    IN  IF e.name \in DOMAIN typeMap
        THEN [kind |-> "error", err |-> "DuplicateRegistration", typeMap |-> typeMap]
        ELSE [kind |-> "ok", err |-> "", typeMap |-> (e.name :> e.t) @@ typeMap]

RegisterType ==
    /\ \E val \in CatalogVals : typeMap' = RegisterTypeResult(val).typeMap
    /\ UNCHANGED <<registrationCounter, currentContext, contexts, regs, tokens,
                   heapTop, callers>>

-----------------------------------------------------------------------------
\* Registration.  A call's result: kind "ok" (token: the id of the registration
\* the returned token holds), "error" (err) or "panic" (err), and the scopes,
\* the registrations and the tokens after it.

ensureImplementor(impl, target) ==
    Implements(impl, target) \/ Implements(PtrTo(impl), target)

Registered(p, tr) ==
    [kind |-> "ok", err |-> "", token |-> tr.id,
     contexts |-> addRegistration(p, tr),
     regs |-> (tr.id :> tr) @@ regs,
     tokens |-> (tr.id :> p) @@ tokens]

Refused(kind, err) ==
    [kind |-> kind, err |-> err, token |-> 0,
     contexts |-> contexts, regs |-> regs, tokens |-> tokens]

\* &typeRegistration{...}
typeRegistration(targetType, implType, initializer, instance, cached, id) ==
    [targetType |-> targetType, implType |-> implType, initializer |-> initializer,
     instance |-> instance, cached |-> cached, id |-> id, lock |-> NoLock]

RegisterByNameResult(p, target, implementor, cached) ==
    LET tr == typeRegistration(newtypeInfo(target, NilType),
                               newtypeInfo(implementor, NilType),
                               NoCallback, 0, cached, registrationCounter + 1)
    IN  Registered(p, tr)

RegisterInstanceImplementorResult(p, target, instance) ==
    LET t == instanceToType(target)
        rt == instanceToType(instance.val)
        tr == typeRegistration(newtypeInfo(<<>>, t), newtypeInfo(<<>>, rt),
                               NoCallback, instance.addr, TRUE, registrationCounter + 1)
    IN  IF ensureImplementor(rt, t) THEN Registered(p, tr)
        ELSE Refused("panic", "CapabilityMismatch")

RegisterTypeImplementorResult(p, target, impl, cached, init) ==
    LET t == instanceToType(target)
        implementor == instanceToType(impl)
        tr == typeRegistration(newtypeInfo(<<>>, t), newtypeInfo(<<>>, implementor),
                               init, 0, cached, registrationCounter + 1)
    IN  IF ensureImplementor(implementor, t) THEN Registered(p, tr)
        ELSE Refused("panic", "CapabilityMismatch")

\* a registration call takes effect; the counter is incremented in every case
Register(r) ==
    /\ registrationCounter < MaxRegs
    /\ registrationCounter' = registrationCounter + 1
    /\ contexts' = r.contexts
    /\ regs' = r.regs
    /\ tokens' = r.tokens
    /\ UNCHANGED <<typeMap, currentContext, heapTop, callers>>

RegisterByName ==
    \E target \in ByNameTargets, implementor \in ByNameImplementors, cached \in BOOLEAN :
        Register(RegisterByNameResult(currentContext, target, implementor, cached))

\* RegisterByName("godi.Initializable", "godi.T2", ...): T2 has no GodiInit
MismatchedByNameTargets == {Initializable}

RegisterByNameMismatched ==
    \E target \in MismatchedByNameTargets, implementor \in ByNameImplementors,
       cached \in BOOLEAN :
        Register(RegisterByNameResult(currentContext, target, implementor, cached))

ContextRegisterByName ==
    \E p \in Handles, target \in ByNameTargets, implementor \in ByNameImplementors,
       cached \in BOOLEAN :
        Register(RegisterByNameResult(p, target, implementor, cached))

RegisterInstanceImplementor ==
    \E target \in TargetVals, instance \in Instances :
        Register(RegisterInstanceImplementorResult(currentContext, target, instance))

ContextRegisterInstanceImplementor ==
    \E p \in Handles, target \in TargetVals, instance \in Instances :
        Register(RegisterInstanceImplementorResult(p, target, instance))

\* RegisterTypeImplementor(target, impl, cached, nil)
RegisterTypeImplementor ==
    \E target \in TargetVals, impl \in ImplVals, cached \in BOOLEAN :
        Register(RegisterTypeImplementorResult(currentContext, target, impl, cached,
                                               NoCallback))

ContextRegisterTypeImplementor ==
    \E p \in Handles, target \in TargetVals, impl \in ImplVals, cached \in BOOLEAN :
        Register(RegisterTypeImplementorResult(p, target, impl, cached, NoCallback))

\* n.RegisterTypeImplementor((*I1)(nil), impl, cached, init) with a callback,
\* among the first MaxCallbackRegs registrations
ContextRegisterTypeImplementorWithCallback ==
    \E p \in Handles, impl \in ImplVals, cached \in BOOLEAN, init \in Callbacks :
        /\ registrationCounter < MaxCallbackRegs
        /\ Register(RegisterTypeImplementorResult(p, Val(PtrTo(I1)), impl, cached, init))

\* RegisterTypeImplementor(target, impl, cached, init) with a callback
RegisterTypeImplementorWithCallback ==
    \E target \in TargetVals, impl \in ImplVals, cached \in BOOLEAN, init \in Callbacks :
        Register(RegisterTypeImplementorResult(currentContext, target, impl, cached, init))

\* T4{}
SelfFailingImplVals == {Val(T4)}

\* RegisterTypeImplementor(target, T4{}, cached, nil)
RegisterTypeImplementorSelfFailing ==
    \E target \in TargetVals, impl \in SelfFailingImplVals, cached \in BOOLEAN :
        Register(RegisterTypeImplementorResult(currentContext, target, impl, cached,
                                               NoCallback))

\* RegistrationToken.Close: the scopes and the tokens after it
TokenCloseResult(id) ==
    IF tokens[id] # NilContext
    THEN [contexts |-> removeRegistration(tokens[id], regs[id]),
          tokens |-> [tokens EXCEPT ![id] = NilContext]]
    ELSE [contexts |-> contexts, tokens |-> tokens]

TokenClose ==
    \E id \in DOMAIN tokens :
        /\ contexts' = TokenCloseResult(id).contexts
        /\ tokens' = TokenCloseResult(id).tokens
        /\ UNCHANGED <<typeMap, registrationCounter, currentContext, regs, heapTop,
                       callers>>

-----------------------------------------------------------------------------
\* Resolution

ObjLimit == Cardinality(Instances) + MaxObjs

ResolveCall(p, target) ==
    LET r == ctxResolve(p, target, heapTop)
    IN  /\ r.top <= ObjLimit
        /\ regs' = r.regs
        /\ heapTop' = r.top
        /\ UNCHANGED <<typeMap, registrationCounter, currentContext, contexts, tokens,
                       callers>>

Resolve == \E target \in TargetVals : ResolveCall(currentContext, target)

ContextResolve == \E p \in Handles, target \in TargetVals : ResolveCall(p, target)

\* ResolveByName("godi.I1"), ResolveByName("*godi.I1"),
\* ResolveByName("godi.Initializable")
ResolveNames == {I1, PtrTo(I1), Initializable}

\* ResolveByName: the registration is looked up in the current scope only, and
\* its target's reflectType pointer is dereferenced: nil for a registration made
\* by name
ResolveByNameResult(target) ==
    LET reg == findRegistration(currentContext, target)
    IN  IF reg = 0 THEN NotFound(currentContext, heapTop)
        ELSE IF regs[reg].targetType.reflectType = NilType
             THEN [kind |-> "panic", err |-> "NilDereference", obj |-> 0, reg |-> reg,
                   ctx |-> currentContext, created |-> FALSE, trace |-> <<>>,
                   regs |-> regs, top |-> heapTop]
             ELSE resolveCore(currentContext, regs[reg].targetType.reflectType, heapTop)

ResolveByName ==
    \E target \in ResolveNames :
        LET r == ResolveByNameResult(target)
        IN  /\ r.top <= ObjLimit
            /\ regs' = r.regs
            /\ heapTop' = r.top
            /\ UNCHANGED <<typeMap, registrationCounter, currentContext, contexts, tokens,
                           callers>>

-----------------------------------------------------------------------------
\* Initializers

RECURSIVE CountInitializers(_)
CountInitializers(n) ==
    IF n = 0 THEN 0 ELSE Len(contexts[n].initializers) + CountInitializers(n - 1)

\* p.initializers.PushFront(initializer): the scopes after it
pushInitializer(p, initializer) ==
    [contexts EXCEPT ![p].initializers = <<initializer>> \o @]

ctxRegisterInstanceInitializer(p, initializer) ==
    /\ CountInitializers(Len(contexts)) < MaxInits
    /\ contexts' = pushInitializer(p, initializer)
    /\ UNCHANGED <<typeMap, registrationCounter, currentContext, regs, tokens, heapTop,
                   callers>>

RegisterInstanceInitializer ==
    \E initializer \in Initializers :
        ctxRegisterInstanceInitializer(currentContext, initializer)

\* RegisterInstanceInitializer on a scope or through the package, once
\* MaxInits initializers are registered
RegisterFurtherInitializer ==
    \E p \in Scopes, initializer \in Initializers :
        /\ CountInitializers(Len(contexts)) >= MaxInits
        /\ CountInitializers(Len(contexts)) < MaxInits + MaxFurtherInits
        /\ contexts' = pushInitializer(p, initializer)
        /\ UNCHANGED <<typeMap, registrationCounter, currentContext, regs, tokens,
                       heapTop, callers>>

ContextRegisterInstanceInitializer ==
    \E p \in Handles, initializer \in Initializers :
        ctxRegisterInstanceInitializer(p, initializer)

-----------------------------------------------------------------------------
\* Scopes

createScopeCore(p, onclose) ==
    Append(contexts, [newregistrationContext(p) EXCEPT !.onclose = onclose])

\* CreateScope's result: the scope returned, the scopes and the current scope
\* after the call.  The closure is built and the scope is made; currentContext
\* is not assigned.
CreateScopeResult(pushScope) ==
    [newCtx |-> Len(contexts) + 1,
     contexts |-> createScopeCore(currentContext, pushScope),
     currentContext |-> currentContext]

CreateScope ==
    \E pushScope \in BOOLEAN :
        /\ Len(contexts) < MaxScopes
        /\ contexts' = CreateScopeResult(pushScope).contexts
        /\ currentContext' = CreateScopeResult(pushScope).currentContext
        /\ UNCHANGED <<typeMap, registrationCounter, regs, tokens, heapTop, callers>>

ContextCreateScope ==
    \E p \in Handles :
        /\ Len(contexts) < MaxScopes
        /\ contexts' = createScopeCore(p, FALSE)
        /\ UNCHANGED <<typeMap, registrationCounter, currentContext, regs, tokens,
                       heapTop, callers>>

\* a Reset that makes a new map of registrations and keeps the initializers
resetRegistrationsOnly(ctxs, p) ==
    [ctxs EXCEPT ![p].registrations = EmptyRegistrations]

\* registrationContext.Reset, on the heap as given
resetContext(ctxs, p) ==
    [ctxs EXCEPT ![p].registrations = EmptyRegistrations, ![p].initializers = <<>>]

\* the onclose closure of CreateScope(true), for the scope p it was made for
onclose(p) ==
    IF currentContext = p THEN contexts[p].parent ELSE currentContext

\* registrationContext.Close: the scopes and the current scope after it
CloseResult(p) ==
    [currentContext |-> IF contexts[p].onclose THEN onclose(p) ELSE currentContext,
     contexts |-> resetContext([contexts EXCEPT ![p].onclose = FALSE,
                                                ![p].parent = NilContext], p)]

ContextClose ==
    \E p \in Handles :
        /\ currentContext' = CloseResult(p).currentContext
        /\ contexts' = CloseResult(p).contexts
        /\ UNCHANGED <<typeMap, registrationCounter, regs, tokens, heapTop, callers>>

ContextReset ==
    \E p \in Handles :
        /\ contexts' = resetContext(contexts, p)
        /\ UNCHANGED <<typeMap, registrationCounter, currentContext, regs, tokens,
                       heapTop, callers>>

Reset ==
    /\ typeMap' = <<>>
    /\ contexts' = resetContext(contexts, RootContext)
    /\ currentContext' = RootContext
    /\ UNCHANGED <<registrationCounter, regs, tokens, heapTop, callers>>

-----------------------------------------------------------------------------
\* The API, called by one goroutine at a time

Next ==
    \/ RegisterByNameMismatched
    \/ ContextRegisterTypeImplementorWithCallback
    \/ RegisterFurtherInitializer
    \/ RegisterType
    \/ RegisterByName
    \/ ContextRegisterByName
    \/ RegisterInstanceImplementor
    \/ ContextRegisterInstanceImplementor
    \/ RegisterTypeImplementor
    \/ ContextRegisterTypeImplementor
    \/ RegisterTypeImplementorWithCallback
    \/ RegisterTypeImplementorSelfFailing
    \/ TokenClose
    \/ Resolve
    \/ ContextResolve
    \/ ResolveByName
    \/ RegisterInstanceInitializer
    \/ ContextRegisterInstanceInitializer
    \/ CreateScope
    \/ ContextCreateScope
    \/ ContextClose
    \/ ContextReset
    \/ Reset

Spec == Init /\ [][Next]_vars

\* Instances registered, overridden and revoked, in the root and in a scope

NextBindings ==
    \/ RegisterInstanceImplementor
    \/ ContextRegisterInstanceImplementor
    \/ TokenClose
    \/ Resolve
    \/ ContextResolve
    \/ CreateScope

SpecBindings == Init /\ [][NextBindings]_vars

\* Scopes: bindings and initializers of a scope and of its ancestors

NextScopes ==
    \/ RegisterInstanceImplementor
    \/ ContextRegisterInstanceImplementor
    \/ Resolve
    \/ ContextResolve
    \/ CreateScope
    \/ ContextCreateScope
    \/ ContextClose

SpecScopes == Init /\ [][NextScopes]_vars

\* Chain: created instances and the initializers of a scope and of its parent

NextChain ==
    \/ RegisterTypeImplementor
    \/ RegisterInstanceInitializer
    \/ ContextRegisterInstanceInitializer
    \/ Resolve
    \/ ContextResolve
    \/ CreateScope
    \/ ContextCreateScope

SpecChain == Init /\ [][NextChain]_vars

\* Registration: what a registration call accepts, and what it makes

NextRegistration ==
    \/ RegisterInstanceImplementor
    \/ RegisterTypeImplementor
    \/ RegisterTypeImplementorWithCallback
    \/ Resolve

SpecRegistration == Init /\ [][NextRegistration]_vars

\* Tokens: registration tokens and the scopes that issued them, reset or closed

NextTokens ==
    \/ RegisterInstanceImplementor
    \/ ContextRegisterInstanceImplementor
    \/ TokenClose
    \/ CreateScope
    \/ ContextClose
    \/ ContextReset
    \/ Reset

SpecTokens == Init /\ [][NextTokens]_vars

\* Close: scopes with bindings and initializers, closed and used again

NextClose ==
    \/ RegisterInstanceImplementor
    \/ ContextRegisterInstanceImplementor
    \/ ContextRegisterInstanceInitializer
    \/ CreateScope
    \/ ContextCreateScope
    \/ ContextClose
    \/ ContextResolve

SpecClose == Init /\ [][NextClose]_vars

\* Initialization: callbacks, self-initialization and registered initializers

NextInit ==
    \/ RegisterInstanceImplementor
    \/ RegisterTypeImplementorWithCallback
    \/ RegisterInstanceInitializer
    \/ Resolve

SpecInit == Init /\ [][NextInit]_vars

\* Delegation: a binding of a scope initialized through the scope's chain

NextDelegation ==
    \/ ContextRegisterTypeImplementorWithCallback
    \/ RegisterInstanceInitializer
    \/ ContextRegisterInstanceInitializer
    \/ RegisterFurtherInitializer
    \/ CreateScope
    \/ ContextCreateScope
    \/ ContextResolve

SpecDelegation == Init /\ [][NextDelegation]_vars

\* Implementors: what each registration call accepts as an implementor

NextImplementors ==
    \/ RegisterType
    \/ RegisterByName
    \/ RegisterByNameMismatched
    \/ RegisterInstanceImplementor
    \/ RegisterTypeImplementor
    \/ Resolve

SpecImplementors == Init /\ [][NextImplementors]_vars

\* Failure: initializations that fail

NextFailure ==
    \/ RegisterTypeImplementorWithCallback
    \/ RegisterTypeImplementorSelfFailing
    \/ Resolve

SpecFailure == Init /\ [][NextFailure]_vars

\* Catalog: the type catalog and what resolves through it

NextCatalog ==
    \/ RegisterType
    \/ RegisterByName
    \/ Resolve
    \/ Reset

SpecCatalog == Init /\ [][NextCatalog]_vars

\* Reset: the process-wide Reset, with scopes alive

NextReset ==
    \/ RegisterType
    \/ RegisterInstanceImplementor
    \/ ContextRegisterInstanceImplementor
    \/ RegisterInstanceInitializer
    \/ CreateScope
    \/ Reset
    \/ ContextResolve

SpecReset == Init /\ [][NextReset]_vars

\* ByName: resolution by name of registrations of every kind

NextByName ==
    \/ RegisterType
    \/ RegisterByName
    \/ RegisterInstanceImplementor
    \/ RegisterTypeImplementor
    \/ Resolve
    \/ ResolveByName

SpecByName == Init /\ [][NextByName]_vars

\* Types: the catalog, registrations by type and by name, materialization

NextTypes ==
    \/ RegisterType
    \/ RegisterByName
    \/ RegisterTypeImplementor
    \/ RegisterInstanceInitializer
    \/ Resolve
    \/ TokenClose

SpecTypes == Init /\ [][NextTypes]_vars

-----------------------------------------------------------------------------
\* Resolve called from several goroutines: resolveCore and realize, one
\* statement (or lock operation) at a time.  A goroutine's record:
\*   pc       where it is
\*   ctx, reg the scope and the registration findRegistration gave
\*   instance, needsCachedInstance, created   the locals of realize
\*   result   what Resolve returns (pc = "done")

Goroutines == 1..Len(callers)

At(c, pc) == c \in Goroutines /\ callers[c].pc = pc

Goto(c, pc) == callers' = [callers EXCEPT ![c].pc = pc]

\* go Resolve(target): resolveCore finds the registration, here or in a parent
StartResolve ==
    \E target \in TargetVals :
        LET name == ExtractType(target).name
            o == Owner(currentContext, name)
            id == IF o = NilContext THEN 0 ELSE findRegistration(o, name)
        IN  /\ Len(callers) < MaxCallers
            /\ callers' = Append(callers,
                    [pc |-> IF id = 0 THEN "done" ELSE "RLock", ctx |-> o, reg |-> id,
                     instance |-> 0, needsCachedInstance |-> FALSE, created |-> FALSE,
                     kind |-> IF id = 0 THEN "error" ELSE "", result |-> 0])
            /\ UNCHANGED <<typeMap, registrationCounter, currentContext, contexts, regs,
                           tokens, heapTop>>

\* p.lock.RLock()
RLock ==
    \E c \in Goroutines :
        /\ At(c, "RLock")
        /\ ~regs[callers[c].reg].lock.w
        /\ regs' = [regs EXCEPT ![callers[c].reg].lock.r = @ + 1]
        /\ Goto(c, "read")
        /\ UNCHANGED <<typeMap, registrationCounter, currentContext, contexts, tokens,
                       heapTop>>

\* instance = p.instance; needsCachedInstance := p.cached && p.instance == nil
ReadInstance ==
    \E c \in Goroutines :
        LET reg == regs[callers[c].reg]
            needs == reg.cached /\ reg.instance = 0
        IN  /\ At(c, "read")
            /\ callers' = [callers EXCEPT ![c].instance = reg.instance,
                                          ![c].needsCachedInstance = needs,
                                          ![c].pc = IF needs THEN "RUnlock" ELSE "create"]
            /\ UNCHANGED <<typeMap, registrationCounter, currentContext, contexts, regs,
                           tokens, heapTop>>

\* p.lock.RUnlock(), on the way to the exclusive lock
RUnlock ==
    \E c \in Goroutines :
        /\ At(c, "RUnlock")
        /\ regs' = [regs EXCEPT ![callers[c].reg].lock.r = @ - 1]
        /\ Goto(c, "Lock")
        /\ UNCHANGED <<typeMap, registrationCounter, currentContext, contexts, tokens,
                       heapTop>>

\* p.lock.Lock()
Lock ==
    \E c \in Goroutines :
        /\ At(c, "Lock")
        /\ ~regs[callers[c].reg].lock.w
        /\ regs[callers[c].reg].lock.r = 0
        /\ regs' = [regs EXCEPT ![callers[c].reg].lock.w = TRUE]
        /\ Goto(c, "recheck")
        /\ UNCHANGED <<typeMap, registrationCounter, currentContext, contexts, tokens,
                       heapTop>>

\* create(): the new object, or "panic" when the implementor's name has no type
CreateResult(reg) ==
    LET t == TypeOf(reg.implType)
    IN  IF t = NilType
        THEN [out |-> "panic", instance |-> 0, reg |-> reg, top |-> heapTop]
        ELSE [out |-> "ok", instance |-> heapTop + 1,
              reg |-> [reg EXCEPT !.implType.reflectType = t], top |-> heapTop + 1]

\* the re-check skipped: the instance is created whatever p.instance holds
RecheckAlwaysCreates(reg) ==
    LET n == CreateResult(reg)
    IN  IF n.out = "panic" THEN n
        ELSE [n EXCEPT !.reg = [n.reg EXCEPT !.instance = n.instance]]

\* if p.instance == nil { instance = create(); p.instance = instance }
\* else { instance = p.instance }
RecheckResult(reg) ==
    IF reg.instance = 0
    THEN LET n == CreateResult(reg)
         IN  IF n.out = "panic" THEN n
             ELSE [n EXCEPT !.reg = [n.reg EXCEPT !.instance = n.instance]]
    ELSE [out |-> "found", instance |-> reg.instance, reg |-> reg, top |-> heapTop]

\* under the exclusive lock; a panic of create() leaves the lock held, the
\* Unlock being deferred only after it
Recheck ==
    \E c \in Goroutines :
        LET r == RecheckResult(regs[callers[c].reg])
        IN  /\ At(c, "recheck")
            /\ regs' = [regs EXCEPT ![callers[c].reg] = r.reg]
            /\ heapTop' = r.top
            /\ callers' = [callers EXCEPT
                    ![c].instance = r.instance,
                    ![c].created = (r.out = "ok"),
                    ![c].kind = IF r.out = "panic" THEN "panic" ELSE @,
                    ![c].pc = IF r.out = "panic" THEN "done" ELSE "Unlock"]
            /\ UNCHANGED <<typeMap, registrationCounter, currentContext, contexts, tokens>>

\* return instance, created, nil: the deferred p.lock.Unlock() runs
Unlock ==
    \E c \in Goroutines :
        /\ At(c, "Unlock")
        /\ regs' = [regs EXCEPT ![callers[c].reg].lock.w = FALSE]
        /\ Goto(c, "initialize")
        /\ UNCHANGED <<typeMap, registrationCounter, currentContext, contexts, tokens,
                       heapTop>>

\* under the shared lock: if !p.cached { instance = create() }
CreateUncached ==
    \E c \in Goroutines :
        LET reg == regs[callers[c].reg]
            r == IF reg.cached
                 THEN [out |-> "found", instance |-> callers[c].instance, reg |-> reg,
                       top |-> heapTop]
                 ELSE CreateResult(reg)
        IN  /\ At(c, "create")
            /\ regs' = [regs EXCEPT ![callers[c].reg] = r.reg]
            /\ heapTop' = r.top
            /\ callers' = [callers EXCEPT
                    ![c].instance = r.instance,
                    ![c].created = (r.out = "ok"),
                    ![c].kind = IF r.out = "panic" THEN "panic" ELSE @,
                    ![c].pc = "deferred RUnlock"]
            /\ UNCHANGED <<typeMap, registrationCounter, currentContext, contexts, tokens>>

\* the deferred p.lock.RUnlock() runs, at the return or at the panic
DeferredRUnlock ==
    \E c \in Goroutines :
        /\ At(c, "deferred RUnlock")
        /\ regs' = [regs EXCEPT ![callers[c].reg].lock.r = @ - 1]
        /\ Goto(c, IF callers[c].kind = "panic" THEN "done" ELSE "initialize")
        /\ UNCHANGED <<typeMap, registrationCounter, currentContext, contexts, tokens,
                       heapTop>>

\* if created { return p.initializeInstance(raw, reg) }; return raw, nil
InitializeOrReturn ==
    \E c \in Goroutines :
        LET i == IF callers[c].created
                 THEN initializeInstance(callers[c].ctx, callers[c].instance,
                                         regs[callers[c].reg], heapTop)
                 ELSE [kind |-> "ok", err |-> "", obj |-> callers[c].instance,
                       trace |-> <<>>, top |-> heapTop]
        IN  /\ At(c, "initialize")
            /\ heapTop' = i.top
            /\ callers' = [callers EXCEPT ![c].kind = i.kind, ![c].result = i.obj,
                                          ![c].pc = "done"]
            /\ UNCHANGED <<typeMap, registrationCounter, currentContext, contexts, regs,
                           tokens>>

\* The state after RegisterInstanceInitializer (or none) and one
\* RegisterTypeImplementor((*I1)(nil), impl, cached, nil), before any Resolve.
InitRealize ==
    \E impl \in ImplVals, cached \in BOOLEAN,
       initializers \in {<<>>} \cup {<<i>> : i \in Initializers} :
        LET tr == typeRegistration(newtypeInfo(<<>>, I1),
                                   newtypeInfo(<<>>, instanceToType(impl)),
                                   NoCallback, 0, cached, 1)
        IN  /\ typeMap = <<>>
            /\ registrationCounter = 1
            /\ contexts = <<[newregistrationContext(NilContext) EXCEPT
                                !.initializers = initializers,
                                !.registrations[I1] = <<1>>]>>
            /\ currentContext = RootContext
            /\ regs = (1 :> tr)
            /\ tokens = (1 :> RootContext)
            /\ heapTop = Cardinality(Instances)
            /\ callers = <<>>

NextRealize ==
    \/ StartResolve
    \/ RLock
    \/ ReadInstance
    \/ RUnlock
    \/ Lock
    \/ Recheck
    \/ Unlock
    \/ CreateUncached
    \/ DeferredRUnlock
    \/ InitializeOrReturn

SpecRealize == InitRealize /\ [][NextRealize]_vars

-----------------------------------------------------------------------------
\* Goroutines on one scope: the scope's rwlock, a Resolve one statement at a
\* time through resolveCore and initializeInstance, and p.Reset().  A
\* goroutine's record here:
\*   op, pc   the call and where it is
\*   ctx      the scope it works on
\*   rwlock   what it holds of ctx's rwlock: "none", "shared", "exclusive"
\*   name, reg, instance, rest, kind, result   the locals of the Resolve;
\*            rest is what the loop over the initializers has still to visit
\* The realize of the binding is taken as one step.  RegisterInstanceInitializer
\* is the one statement PushFront and takes no lock.

OnScope(c) == c \in Goroutines /\ "rwlock" \in DOMAIN callers[c]

Readers(p) == {c \in Goroutines : OnScope(c) /\ callers[c].ctx = p
                                      /\ callers[c].rwlock = "shared"}

Writers(p) == {c \in Goroutines : OnScope(c) /\ callers[c].ctx = p
                                      /\ callers[c].rwlock = "exclusive"}

AtOn(c, op, pc) == OnScope(c) /\ callers[c].op = op /\ callers[c].pc = pc

\* go p.Resolve(target)
StartResolveOnScope ==
    \E p \in Scopes, target \in TargetVals :
        /\ Len(callers) < MaxCallers
        /\ callers' = Append(callers,
                [op |-> "Resolve", pc |-> "RLock", ctx |-> p, rwlock |-> "none",
                 name |-> typeToString(instanceToType(target)), reg |-> 0,
                 instance |-> 0, rest |-> <<>>, kind |-> "", result |-> 0])
        /\ UNCHANGED <<typeMap, registrationCounter, currentContext, contexts, regs,
                       tokens, heapTop>>

\* findRegistration: p.rwlock.RLock()
FindRLock ==
    \E c \in Goroutines :
        /\ AtOn(c, "Resolve", "RLock")
        /\ Writers(callers[c].ctx) = {}
        /\ callers' = [callers EXCEPT ![c].rwlock = "shared", ![c].pc = "find"]
        /\ UNCHANGED <<typeMap, registrationCounter, currentContext, contexts, regs,
                       tokens, heapTop>>

\* findRegistration: the front of the list of the name
Find ==
    \E c \in Goroutines :
        /\ AtOn(c, "Resolve", "find")
        /\ callers' = [callers EXCEPT
                ![c].reg = findRegistration(callers[c].ctx, callers[c].name),
                ![c].pc = "RUnlock"]
        /\ UNCHANGED <<typeMap, registrationCounter, currentContext, contexts, regs,
                       tokens, heapTop>>

\* findRegistration: the deferred p.rwlock.RUnlock(); then resolveCore goes to
\* the parent, to realize, or returns the error
FindRUnlock ==
    \E c \in Goroutines :
        LET up == contexts[callers[c].ctx].parent
        IN  /\ AtOn(c, "Resolve", "RUnlock")
            /\ callers' = [callers EXCEPT
                    ![c].rwlock = "none",
                    ![c].ctx = IF callers[c].reg = 0 /\ up # NilContext THEN up ELSE @,
                    ![c].kind = IF callers[c].reg = 0 /\ up = NilContext
                                THEN "error" ELSE @,
                    ![c].pc = IF callers[c].reg # 0 THEN "realize"
                              ELSE IF up # NilContext THEN "RLock" ELSE "done"]
            /\ UNCHANGED <<typeMap, registrationCounter, currentContext, contexts, regs,
                           tokens, heapTop>>

\* raw, created, err := reg.realize()
RealizeBinding ==
    \E c \in Goroutines :
        /\ AtOn(c, "Resolve", "realize")
        /\ LET r == realize(regs[callers[c].reg], heapTop)
           IN  /\ r.out # "blocked"
               /\ r.top <= ObjLimit
               /\ regs' = [regs EXCEPT ![callers[c].reg] = r.reg]
               /\ heapTop' = r.top
               /\ callers' = [callers EXCEPT
                       ![c].instance = r.instance,
                       ![c].kind = IF r.out = "panic" THEN "panic"
                                   ELSE IF r.created THEN @ ELSE "ok",
                       ![c].result = IF r.out = "ok" /\ ~r.created THEN r.instance ELSE @,
                       ![c].pc = IF r.out = "ok" /\ r.created THEN "callback" ELSE "done"]
        /\ UNCHANGED <<typeMap, registrationCounter, currentContext, contexts, tokens>>

\* initializeInstance: the callback and GodiInit
CallbackAndGodiInit ==
    \E c \in Goroutines :
        LET typeReg == regs[callers[c].reg]
            cb == typeReg.initializer
            callInitializers == IF cb # NoCallback THEN CallbackContinue(cb) ELSE TRUE
            err == cb # NoCallback /\ CallbackError(cb)
            failed == \/ err /\ ~callInitializers
                      \/ /\ callInitializers
                         /\ Implements(PtrTo(typeReg.implType.reflectType), Initializable)
                         /\ GodiInitFails(typeReg.implType.reflectType)
        IN  /\ AtOn(c, "Resolve", "callback")
            /\ callers' = [callers EXCEPT
                    ![c].kind = IF failed THEN "panic"
                                ELSE IF ~callInitializers THEN "ok" ELSE @,
                    ![c].result = IF ~failed /\ ~callInitializers
                                  THEN callers[c].instance ELSE @,
                    ![c].pc = IF failed \/ ~callInitializers THEN "done" ELSE "Front"]
            /\ UNCHANGED <<typeMap, registrationCounter, currentContext, contexts, regs,
                           tokens, heapTop>>

\* initializeInstance: l := p.initializers; e := l.Front(), no lock taken
Front ==
    \E c \in Goroutines :
        /\ AtOn(c, "Resolve", "Front")
        /\ callers' = [callers EXCEPT ![c].rest = contexts[callers[c].ctx].initializers,
                                      ![c].pc = "iterate"]
        /\ UNCHANGED <<typeMap, registrationCounter, currentContext, contexts, regs,
                       tokens, heapTop>>

\* initializeInstance: one turn of the loop, or what follows its end
AskInitializer ==
    \E c \in Goroutines :
        LET rest == callers[c].rest
            up == contexts[callers[c].ctx].parent
            takes == rest # <<>> /\ CanInitialize(Head(rest),
                                                  regs[callers[c].reg].implType.typeName)
            how == IF takes THEN InitializeResult(Head(rest)) ELSE ""
        IN  /\ AtOn(c, "Resolve", "iterate")
            /\ (how = "replace") => heapTop < ObjLimit
            /\ heapTop' = IF how = "replace" THEN heapTop + 1 ELSE heapTop
            /\ callers' = [callers EXCEPT
                    ![c].rest = IF rest = <<>> THEN <<>> ELSE Tail(rest),
                    ![c].ctx = IF rest = <<>> /\ up # NilContext THEN up ELSE @,
                    ![c].kind = IF how = "error" THEN "error"
                                ELSE IF takes \/ (rest = <<>> /\ up = NilContext)
                                THEN "ok" ELSE @,
                    ![c].result = IF how = "replace" THEN heapTop + 1
                                  ELSE IF how = "same" \/ (rest = <<>> /\ up = NilContext)
                                  THEN callers[c].instance ELSE @,
                    ![c].pc = IF takes \/ (rest = <<>> /\ up = NilContext) THEN "done"
                              ELSE IF rest = <<>> THEN "callback" ELSE "iterate"]
            /\ UNCHANGED <<typeMap, registrationCounter, currentContext, contexts, regs,
                           tokens>>

\* go p.Reset()
StartReset ==
    \E p \in Scopes :
        /\ Len(callers) < MaxCallers
        /\ callers' = Append(callers,
                [op |-> "Reset", pc |-> "Lock", ctx |-> p, rwlock |-> "none"])
        /\ UNCHANGED <<typeMap, registrationCounter, currentContext, contexts, regs,
                       tokens, heapTop>>

\* Reset: p.rwlock.Lock()
ResetLock ==
    \E c \in Goroutines :
        /\ AtOn(c, "Reset", "Lock")
        /\ Writers(callers[c].ctx) = {}
        /\ Readers(callers[c].ctx) = {}
        /\ callers' = [callers EXCEPT ![c].rwlock = "exclusive", ![c].pc = "make"]
        /\ UNCHANGED <<typeMap, registrationCounter, currentContext, contexts, regs,
                       tokens, heapTop>>

\* Reset: p.registrations = make(...); p.initializers = list.New()
ResetBody ==
    \E c \in Goroutines :
        /\ AtOn(c, "Reset", "make")
        /\ contexts' = resetContext(contexts, callers[c].ctx)
        /\ callers' = [callers EXCEPT ![c].pc = "Unlock"]
        /\ UNCHANGED <<typeMap, registrationCounter, currentContext, regs, tokens,
                       heapTop>>

\* Reset: the deferred p.rwlock.Unlock()
ResetUnlock ==
    \E c \in Goroutines :
        /\ AtOn(c, "Reset", "Unlock")
        /\ callers' = [callers EXCEPT ![c].rwlock = "none", ![c].pc = "done"]
        /\ UNCHANGED <<typeMap, registrationCounter, currentContext, contexts, regs,
                       tokens, heapTop>>

NextScopeLock ==
    \/ StartResolveOnScope
    \/ FindRLock
    \/ Find
    \/ FindRUnlock
    \/ RealizeBinding
    \/ CallbackAndGodiInit
    \/ Front
    \/ AskInitializer
    \/ RegisterInstanceInitializer
    \/ RegisterFurtherInitializer
    \/ StartReset
    \/ ResetLock
    \/ ResetBody
    \/ ResetUnlock

SpecScopeLock == InitRealize /\ [][NextScopeLock]_vars

-----------------------------------------------------------------------------
\* RegisterInstanceImplementor called from several goroutines, one statement
\* at a time.  registrationCounter++ is a load and a store, the id is read
\* afterwards, and none of the three is under a lock; addRegistration runs
\* under the scope's rwlock and is one step.  A goroutine's record here:
\*   op, pc, ctx, rwlock   as above
\*   target, inst          the arguments
\*   tmp                   the counter as loaded by registrationCounter++
\*   id                    the id read for the typeRegistration
\*   token                 the registration of the token returned (pc = "done")

Max(S) == CHOOSE x \in S : \A y \in S : y <= x

\* the place in regs of a typeRegistration allocated by a goroutine
NewRegistration == Max(DOMAIN regs \cup {MaxRegs}) + 1

\* go RegisterInstanceImplementor(target, instance)
StartRegister ==
    \E target \in TargetVals, instance \in Instances :
        /\ Len(callers) < MaxCallers
        /\ callers' = Append(callers,
                [op |-> "Register", pc |-> "load", ctx |-> currentContext,
                 rwlock |-> "none", target |-> target, inst |-> instance,
                 tmp |-> 0, id |-> 0, kind |-> "", token |-> 0])
        /\ UNCHANGED <<typeMap, registrationCounter, currentContext, contexts, regs,
                       tokens, heapTop>>

\* registrationCounter++, the load
LoadCounter ==
    \E c \in Goroutines :
        /\ AtOn(c, "Register", "load")
        /\ callers' = [callers EXCEPT ![c].tmp = registrationCounter, ![c].pc = "store"]
        /\ UNCHANGED <<typeMap, registrationCounter, currentContext, contexts, regs,
                       tokens, heapTop>>

\* registrationCounter++, the store
StoreCounter ==
    \E c \in Goroutines :
        /\ AtOn(c, "Register", "store")
        /\ registrationCounter' = callers[c].tmp + 1
        /\ callers' = [callers EXCEPT ![c].pc = "id"]
        /\ UNCHANGED <<typeMap, currentContext, contexts, regs, tokens, heapTop>>

\* tr := &typeRegistration{..., id: registrationCounter}
ReadId ==
    \E c \in Goroutines :
        /\ AtOn(c, "Register", "id")
        /\ callers' = [callers EXCEPT ![c].id = registrationCounter, ![c].pc = "add"]
        /\ UNCHANGED <<typeMap, registrationCounter, currentContext, contexts, regs,
                       tokens, heapTop>>

\* ensureImplementor; p.addRegistration(tr); return &RegistrationToken{...}
AddRegistration ==
    \E c \in Goroutines :
        LET p == callers[c].ctx
            t == instanceToType(callers[c].target)
            rt == instanceToType(callers[c].inst.val)
            tr == typeRegistration(newtypeInfo(<<>>, t), newtypeInfo(<<>>, rt),
                                   NoCallback, callers[c].inst.addr, TRUE, callers[c].id)
            k == NewRegistration
        IN  /\ AtOn(c, "Register", "add")
            /\ Writers(p) = {}
            /\ Readers(p) = {}
            /\ IF ensureImplementor(rt, t)
               THEN /\ regs' = (k :> tr) @@ regs
                    /\ contexts' = [contexts EXCEPT
                            ![p].registrations[tr.targetType.typeName] = <<k>> \o @]
                    /\ tokens' = (k :> p) @@ tokens
                    /\ callers' = [callers EXCEPT ![c].kind = "ok", ![c].token = k,
                                                  ![c].pc = "done"]
               ELSE /\ callers' = [callers EXCEPT ![c].kind = "panic", ![c].pc = "done"]
                    /\ UNCHANGED <<regs, contexts, tokens>>
            /\ UNCHANGED <<typeMap, registrationCounter, currentContext, heapTop>>

NextRegisterRace ==
    \/ StartRegister
    \/ LoadCounter
    \/ StoreCounter
    \/ ReadId
    \/ AddRegistration
    \/ TokenClose

SpecRegisterRace == Init /\ [][NextRegisterRace]_vars

-----------------------------------------------------------------------------
\* Properties


\* the registrations made on scope p for the name whose token is not closed
OpenBindings(p, name) ==
    {id \in DOMAIN tokens : tokens[id] = p /\ regs[id].targetType.typeName = name}

\* C1: within one scope a resolve of a target returns the instance of the most
\* recently registered binding for that target whose token has not been closed
\* (so a later registration overrides, and closing its token brings the earlier
\* one back); with no such binding, and no parent, the resolve fails NotFound.
C1_LastOpenRegistrationWins ==
    \A p \in Scopes, target \in TargetVals :
        LET open == OpenBindings(p, ExtractType(target).name)
            r == ctxResolve(p, target, heapTop)
        IN  IF open # {}
            THEN /\ r.kind = "ok"
                 /\ r.reg = Max(open)
                 /\ r.obj = regs[Max(open)].instance
            ELSE contexts[p].parent = NilContext =>
                    r.kind = "error" /\ r.err = "NotFound"

\* two instances registered for I1 on the root, the later token closed: the
\* resolve returns the earlier instance again
C1_Witness ==
    /\ DOMAIN tokens = {1, 2}
    /\ tokens[1] = RootContext /\ tokens[2] = NilContext
    /\ regs[1].targetType.typeName = I1 /\ regs[2].targetType.typeName = I1
    /\ regs[1].instance # regs[2].instance
    /\ ctxResolve(RootContext, Val(PtrTo(I1)), heapTop).obj = regs[1].instance

\* C3: when a child scope holds a binding for a target, a resolve of the target
\* on the child materializes the head of the child's own list, in the child,
\* whatever its ancestors hold and whenever they registered it.
C3_ChildShadowsAncestors ==
    \A p \in Handles, target \in TargetVals :
        LET l == contexts[p].registrations[ExtractType(target).name]
            r == ctxResolve(p, target, heapTop)
        IN  l # <<>> =>
                /\ r.kind = "ok"
                /\ r.ctx = p
                /\ r.reg = Head(l)
                /\ r.obj = regs[Head(l)].instance

\* a child and its parent both hold a binding for I1, of different instances,
\* the parent's registered after the child's
C3_Witness ==
    \E p \in Handles :
        /\ contexts[p].parent = RootContext
        /\ contexts[p].registrations[I1] # <<>>
        /\ contexts[RootContext].registrations[I1] # <<>>
        /\ Head(contexts[RootContext].registrations[I1]) > Head(contexts[p].registrations[I1])
        /\ regs[Head(contexts[RootContext].registrations[I1])].instance #
                regs[Head(contexts[p].registrations[I1])].instance

\* C2: for a scope S without a binding for a target whose parent P has one,
\* S.Resolve gives exactly what P.Resolve gives: the same registration
\* materialized in the same scope, the same calls to initializers (those of P
\* and above), the same object or error, the same registrations afterwards.
C2_ResolveThroughParent ==
    \A S \in Handles, target \in TargetVals :
        LET P == contexts[S].parent
            name == ExtractType(target).name
        IN  (/\ P # NilContext
             /\ findRegistration(S, name) = 0
             /\ findRegistration(P, name) # 0) =>
                ctxResolve(S, target, heapTop) = ctxResolve(P, target, heapTop)

\* S has no binding for I1 and an initializer of its own that can initialize
\* what the parent's binding creates; a resolve on S creates an instance
C2_Witness ==
    \E S \in Handles :
        LET r == ctxResolve(S, Val(PtrTo(I1)), heapTop)
        IN  /\ contexts[S].parent = RootContext
            /\ contexts[S].registrations[I1] = <<>>
            /\ contexts[RootContext].registrations[I1] # <<>>
            /\ contexts[S].initializers # <<>>
            /\ CanInitialize(contexts[S].initializers[1], regs[r.reg].implType.typeName)
            /\ r.kind = "ok" /\ r.created
            /\ heapTop > Cardinality(Instances)

\* C4: two sequential resolves of a binding registered by type with cached =
\* true return the identical object, whatever the initializers return; two
\* resolves of a binding with cached = false return distinct objects.  Stated
\* on the step of the first resolve: the second is the resolve of the state it
\* leaves.
C4_CachedResolvesIdentical ==
    [][\A target \in TargetVals :
        \A first \in {ctxResolve(currentContext, target, heapTop)} :
            (/\ first.kind = "ok"
             /\ first.created
             /\ regs[first.reg].targetType.reflectType # NilType
             /\ regs' = first.regs
             /\ heapTop' = first.top) =>
                /\ ctxResolve(currentContext, target, heapTop)'.kind = "ok"
                /\ regs[first.reg].cached =>
                        ctxResolve(currentContext, target, heapTop)'.obj = first.obj
                /\ ~regs[first.reg].cached =>
                        ctxResolve(currentContext, target, heapTop)'.obj # first.obj
      ]_vars

\* C5: callers resolving one cached binding that has no instance: under every
\* interleaving at most one of them constructs, and every caller that has left
\* realize has that one constructed instance, the one the binding stores.
C5_OneConstruction ==
    \A id \in DOMAIN regs :
        regs[id].cached =>
            LET cs == {c \in Goroutines : callers[c].reg = id}
                makers == {c \in cs : callers[c].created}
            IN  /\ Cardinality(makers) <= 1
                /\ \A c \in cs :
                        callers[c].pc \in {"initialize", "done"} =>
                            /\ Cardinality(makers) = 1
                            /\ regs[id].instance # 0
                            /\ callers[c].instance = regs[id].instance

\* two callers both found the binding without an instance and both went for
\* the exclusive lock; both have left realize, one of them constructed
C5_Witness ==
    /\ Len(callers) >= 2
    /\ callers[1].needsCachedInstance /\ callers[2].needsCachedInstance
    /\ callers[1].pc = "done" /\ callers[2].pc = "done"
    /\ callers[1].created # callers[2].created

\* C6: a registration of an instance or of a type whose implementor satisfies
\* the target neither as a value nor as a pointer returns the error
\* CapabilityMismatch to its caller and leaves the binding lists as they were.
C6_MismatchReturnedAsError ==
    \A p \in Scopes, target \in TargetVals :
        /\ \A instance \in Instances :
            ~ensureImplementor(instanceToType(instance.val), instanceToType(target)) =>
                LET r == RegisterInstanceImplementorResult(p, target, instance)
                IN  r.kind = "error" /\ r.err = "CapabilityMismatch" /\ r.contexts = contexts
        /\ \A impl \in ImplVals, cached \in BOOLEAN :
            ~ensureImplementor(instanceToType(impl), instanceToType(target)) =>
                LET r == RegisterTypeImplementorResult(p, target, impl, cached, NoCallback)
                IN  r.kind = "error" /\ r.err = "CapabilityMismatch" /\ r.contexts = contexts

\* C7: RegisterByName returns a token and adds the binding whatever the catalog
\* holds; while the implementor's name is not in the catalog a resolve of the
\* binding does not succeed; once both names are in the catalog it succeeds,
\* cached or not, whatever resolves were attempted before.
C7_PendingByNameResolves ==
    /\ \A target \in ByNameTargets, implementor \in ByNameImplementors, cached \in BOOLEAN :
            LET r == RegisterByNameResult(currentContext, target, implementor, cached)
            IN  /\ r.kind = "ok"
                /\ r.token # 0
                /\ Head(r.contexts[currentContext].registrations[formatType(target)]) = r.token
    /\ \A target \in TargetVals :
            LET id == findRegistration(currentContext, ExtractType(target).name)
                r == ctxResolve(currentContext, target, heapTop)
            IN  (id # 0 /\ regs[id].targetType.reflectType = NilType) =>
                    IF /\ regs[id].targetType.typeName \in DOMAIN typeMap
                       /\ regs[id].implType.typeName \in DOMAIN typeMap
                    THEN r.kind = "ok"
                    ELSE regs[id].implType.typeName \notin DOMAIN typeMap => r.kind # "ok"

\* C8: while a scope made by CreateScope(true) is open, the latest such scope
\* is the current scope, and a registration through the unscoped API is made
\* on it.
C8_PushedScopeIsCurrent ==
    LET pushed == {N \in Handles : contexts[N].onclose}
    IN  pushed # {} =>
            /\ currentContext = Max(pushed)
            /\ \A target \in TargetVals, instance \in Instances :
                LET r == RegisterInstanceImplementorResult(currentContext, target, instance)
                IN  r.kind = "ok" => r.tokens[r.token] = Max(pushed)

\* C9: closing a scope made by CreateScope(true) makes its parent the current
\* scope, and the parent then holds no binding it did not hold before the
\* push: while the pushed scope is open no call adds a binding to a list of
\* its parent.
C9_ParentAsBeforeThePush ==
    [][\A N \in Handles :
        contexts[N].onclose =>
            \A P \in {contexts[N].parent} :
                /\ ~contexts'[N].onclose => currentContext' = P
                /\ \A n \in Names :
                        Len(contexts'[P].registrations[n]) <= Len(contexts[P].registrations[n])
      ]_vars

RECURSIVE Without(_, _)
Without(l, id) ==
    IF l = <<>> THEN <<>>
    ELSE IF Head(l) = id THEN Without(Tail(l), id)
    ELSE <<Head(l)>> \o Without(Tail(l), id)

\* C10: closing a registration token removes exactly that binding from the
\* list of its target in the scope that issued it: the other bindings of the
\* list keep their order, every other list of every scope is unchanged, and
\* when the binding was not the head, the head and what a resolve of the target
\* on that scope gives are what they were before.
C10_TokenCloseRemovesThatBinding ==
    [][\A id \in DOMAIN tokens :
        (tokens[id] # NilContext /\ tokens'[id] = NilContext) =>
            \A p \in {tokens[id]}, tn \in {regs[id].targetType.typeName} :
                /\ contexts'[p].registrations[tn] =
                        Without(contexts[p].registrations[tn], id)
                /\ Len(contexts'[p].registrations[tn]) =
                        Len(contexts[p].registrations[tn]) - 1
                /\ \A q \in Scopes, n \in Names :
                        (q # p \/ n # tn) =>
                            contexts'[q].registrations[n] = contexts[q].registrations[n]
                /\ Head(contexts[p].registrations[tn]) # id =>
                        /\ Head(contexts'[p].registrations[tn]) =
                                Head(contexts[p].registrations[tn])
                        /\ ctxResolve(p, TypeVal(tn), heapTop)' =
                                ctxResolve(p, TypeVal(tn), heapTop)
      ]_vars

\* three bindings of one target on the root, the token of the oldest closed
\* while the two later ones stay
C10_Witness ==
    /\ DOMAIN tokens = {1, 2, 3}
    /\ tokens[1] = NilContext /\ tokens[2] = RootContext /\ tokens[3] = RootContext
    /\ contexts[RootContext].registrations[I1] = <<3, 2>>
    /\ regs[1].targetType.typeName = I1

\* C11: closing a token a second time removes nothing, whatever was registered
\* since the first Close; closing a token whose binding its scope no longer
\* holds (the scope was reset or closed since) removes nothing either, so no
\* binding registered afterwards is lost.
C11_TokenCloseIdempotent ==
    \A id \in DOMAIN tokens :
        LET p == tokens[id]
            r == TokenCloseResult(id)
        IN  /\ p = NilContext => (r.contexts = contexts /\ r.tokens = tokens)
            /\ (p # NilContext /\ ~\E i \in 1..Len(ListOf(p, regs[id].targetType.typeName)) :
                                        ListOf(p, regs[id].targetType.typeName)[i] = id) =>
                    r.contexts = contexts

\* token 1 is still open, its scope has lost binding 1 (reset or closed) and
\* holds a binding of the same target registered afterwards; token 2 has
\* been closed
C11_Witness ==
    /\ DOMAIN tokens = {1, 2, 3}
    /\ tokens[1] # NilContext
    /\ tokens[2] = NilContext
    /\ tokens[3] = tokens[1]
    /\ regs[3].targetType.typeName = regs[1].targetType.typeName
    /\ ListOf(tokens[1], regs[1].targetType.typeName) = <<3>>

\* C12: the Close of a scope that has a parent runs its onclose closure if it
\* has one (and drops it), sets its parent to nil and empties its bindings and
\* its initializers; every other scope, its former parent included, is as it
\* was; a resolve on the closed scope then fails NotFound for every target.
C12_CloseTearsDown ==
    [][\A p \in Handles :
        (contexts[p].parent # NilContext /\ contexts'[p].parent = NilContext) =>
            /\ contexts'[p].registrations = EmptyRegistrations
            /\ contexts'[p].initializers = <<>>
            /\ ~contexts'[p].onclose
            /\ currentContext' = IF contexts[p].onclose /\ currentContext = p
                                 THEN contexts[p].parent ELSE currentContext
            /\ \A q \in Scopes \ {p} : contexts'[q] = contexts[q]
            /\ \A target \in TargetVals :
                    /\ ctxResolve(p, target, heapTop)'.kind = "error"
                    /\ ctxResolve(p, target, heapTop)'.err = "NotFound"
      ]_vars

\* a scope in which a binding was registered has been closed: it holds
\* nothing, and its former parent, the root, still holds a binding for I1
C12_Witness ==
    \E p \in Handles :
        /\ contexts[p].parent = NilContext
        /\ \E id \in DOMAIN tokens : tokens[id] = p /\ regs[id].targetType.typeName = I1
        /\ contexts[p].registrations = EmptyRegistrations
        /\ contexts[RootContext].registrations[I1] # <<>>
        /\ ctxResolve(p, Val(PtrTo(I1)), heapTop).err = "NotFound"

\* C13: the Close of a scope that was closed before (it has no parent any
\* more) changes nothing: not the current scope, not the scope's bindings and
\* initializers, whatever was registered in it since the first Close.
C13_SecondCloseIsNoOp ==
    \A p \in Handles :
        contexts[p].parent = NilContext =>
            /\ CloseResult(p).currentContext = currentContext
            /\ CloseResult(p).contexts = contexts

\* C14: the initializers of a scope are asked CanInitialize earliest
\* registered first: with one initializer registered that can initialize a
\* type, after the registration of any other initializer a new instance of
\* the type is still offered to the earlier one first, and initialized by it.
C14_AskedInRegistrationOrder ==
    \A p \in Scopes, later \in Initializers, t \in {T1, T3} :
        contexts[p].initializers # <<>> =>
            \A earlier \in {contexts[p].initializers[Len(contexts[p].initializers)]} :
                LET asked == AskInitializers(pushInitializer(p, later)[p].initializers,
                                             1, heapTop + 1, t)
                IN  /\ asked.trace[1] = <<"CanInitialize", earlier>>
                    /\ CanInitialize(earlier, t) => asked.init = earlier

\* C15: the initialization protocol runs exactly in the resolves that create
\* the instance: a binding that holds an instance (supplied at registration
\* or cached by an earlier resolve) returns it with no call to a callback,
\* to GodiInit or to an initializer; a binding that holds none (every
\* cached = false binding) creates one and runs the protocol, its callback
\* first.
C15_InitializedOnlyWhenCreated ==
    \A target \in TargetVals :
        LET r == ctxResolve(currentContext, target, heapTop)
        IN  r.reg # 0 =>
                IF regs[r.reg].instance # 0
                THEN /\ r.kind = "ok"
                     /\ r.obj = regs[r.reg].instance
                     /\ ~r.created
                     /\ r.trace = <<>>
                ELSE /\ r.created
                     /\ ~regs[r.reg].cached => r.regs[r.reg].instance = 0
                     /\ regs[r.reg].initializer # NoCallback =>
                            /\ r.trace # <<>>
                            /\ r.trace[1] = <<"callback", regs[r.reg].initializer>>

\* a cached binding with a callback holds the instance an earlier resolve
\* created, an initializer is registered, and the binding is the one a
\* resolve of its target gives
C15_Witness ==
    \E id \in DOMAIN regs :
        /\ regs[id].initializer # NoCallback
        /\ regs[id].cached
        /\ regs[id].instance # 0
        /\ contexts[RootContext].initializers # <<>>
        /\ findRegistration(RootContext, regs[id].targetType.typeName) = id

\* C20: a resolve whose callback returns an error with shouldContinue = false,
\* or whose instance's GodiInit returns an error, ends in the fatal
\* InitializationFailure and returns no instance; and the resolve that follows
\* such a failure does not return the instance whose initialization failed.
C20_FailedInstanceNeverReturned ==
    [][\A target \in TargetVals :
        \A first \in {ctxResolve(currentContext, target, heapTop)} :
            /\ (/\ first.created
                /\ \/ regs[first.reg].initializer = "stopErr"
                   \/ /\ regs[first.reg].initializer \in {NoCallback, "continue", "continueErr"}
                      /\ GodiInitFails(regs[first.reg].implType.reflectType)) =>
                    (first.kind = "panic" /\ first.err = "InitializationFailure"
                        /\ first.obj = 0)
            /\ (/\ first.kind = "panic"
                /\ first.err = "InitializationFailure"
                /\ regs' = first.regs
                /\ heapTop' = first.top
                /\ heapTop' > heapTop) =>
                    ~(/\ ctxResolve(currentContext, target, heapTop)'.kind = "ok"
                      /\ ctxResolve(currentContext, target, heapTop)'.obj = heapTop')
      ]_vars

\* C16: RegisterType of a name the catalog holds returns the error
\* DuplicateRegistration and leaves the catalog as it is, the name keeping the
\* handle registered first; RegisterType of a name it does not hold succeeds
\* and adds that name with its handle, every other entry staying.
C16_RegisterTypeOncePerName ==
    \A val \in CatalogVals :
        LET e == ExtractType(val)
            r == RegisterTypeResult(val)
        IN  IF e.name \in DOMAIN typeMap
            THEN /\ r.kind = "error"
                 /\ r.err = "DuplicateRegistration"
                 /\ r.typeMap = typeMap
            ELSE /\ r.kind = "ok"
                 /\ DOMAIN r.typeMap = DOMAIN typeMap \cup {e.name}
                 /\ r.typeMap[e.name] = e.t
                 /\ \A n \in DOMAIN typeMap : r.typeMap[n] = typeMap[n]

\* the catalog holds godi.I1 and godi.T2, the latter with the handle of *T2
\* that RegisterType((**T2)(nil)) gave it: RegisterType(T2{}) is a duplicate
\* with another handle
C16_Witness ==
    /\ DOMAIN typeMap = {I1, T2}
    /\ typeMap[T2] = PtrTo(T2)
    /\ RegisterTypeResult(Val(T2)).kind = "error"

RECURSIVE Chain(_)
\* a scope and its ancestors
Chain(p) ==
    {p} \cup (IF contexts[p].parent = NilContext THEN {} ELSE Chain(contexts[p].parent))

\* C17: a resolve of a target on a scope fails NotFound exactly when no scope
\* from it up to the root holds a binding for the target, whatever they hold
\* for other targets; the failed resolve creates no object and changes no
\* registration.
C17_NotFoundIffUnboundInChain ==
    \A p \in Scopes, target \in TargetVals :
        LET r == ctxResolve(p, target, heapTop)
            unbound == \A q \in Chain(p) :
                            contexts[q].registrations[ExtractType(target).name] = <<>>
        IN  /\ (r.kind = "error" /\ r.err = "NotFound") <=> unbound
            /\ unbound => (r.obj = 0 /\ ~r.created /\ r.regs = regs /\ r.top = heapTop)

\* a child of the root and the root hold no binding for I1, the child holds
\* one for Initializable: the resolve of I1 on the child fails
C17_Witness ==
    \E p \in Handles :
        /\ contexts[p].parent = RootContext
        /\ contexts[p].registrations[Initializable] # <<>>
        /\ contexts[p].registrations[I1] = <<>>
        /\ contexts[RootContext].registrations[I1] = <<>>
        /\ ctxResolve(p, Val(PtrTo(I1)), heapTop).err = "NotFound"

\* C18: the process-wide Reset leaves the catalog empty, the root without
\* bindings and initializers, the root current, and no scope through which a
\* binding registered before can be resolved.  Stated on the Reset that
\* empties a catalog that held a name.
C18_ResetCollapsesAllScopes ==
    [][(typeMap # <<>> /\ typeMap' = <<>>) =>
            /\ contexts'[RootContext].registrations = EmptyRegistrations
            /\ contexts'[RootContext].initializers = <<>>
            /\ currentContext' = RootContext
            /\ \A p \in Scopes, target \in TargetVals :
                    ctxResolve(p, target, heapTop)'.kind = "error"
      ]_vars

\* C19: ResolveByName of a name gives what Resolve of the target of that name
\* gives on the current scope: the same outcome (an object, NotFound, or a
\* halt only where Resolve halts), the same object, the same registrations
\* and objects afterwards.
C19_ResolveByNameAsResolve ==
    \A target \in ResolveNames :
        LET r == ResolveByNameResult(target)
            q == ctxResolve(currentContext, TypeVal(formatType(target)), heapTop)
        IN  /\ r.kind = q.kind
            /\ r.kind = "error" => r.err = q.err
            /\ r.obj = q.obj
            /\ r.regs = q.regs
            /\ r.top = q.top

\* C21: the initialization of a created instance runs callback, then
\* self-initialization, then registered initializers, each gating the next:
\* a callback is the first call made; when it answers (false, no error)
\* nothing else is called and the instance is returned as created; when
\* there is no callback or it answers true, GodiInit of a self-initializable
\* instance is the next call, before any initializer is asked, and an
\* instance that is not self-initializable gets no GodiInit call.
C21_CallbackThenSelfThenInitializers ==
    \A target \in TargetVals :
        LET r == ctxResolve(currentContext, target, heapTop)
        IN  (r.reg # 0 /\ r.created) =>
                LET cb == regs[r.reg].initializer
                    self == Implements(PtrTo(regs[r.reg].implType.reflectType),
                                       Initializable)
                    first == IF cb = NoCallback THEN 1 ELSE 2
                IN  /\ cb # NoCallback => r.trace[1] = <<"callback", cb>>
                    /\ cb = "stop" =>
                            /\ r.kind = "ok"
                            /\ r.obj = heapTop + 1
                            /\ r.trace = << <<"callback", cb>> >>
                    /\ (cb \in {NoCallback, "continue", "continueErr"} /\ self) =>
                            /\ Len(r.trace) >= first
                            /\ r.trace[first][1] = "GodiInit"
                    /\ (cb \in {NoCallback, "continue", "continueErr"} /\ ~self) =>
                            \A i \in 1..Len(r.trace) : r.trace[i][1] # "GodiInit"
                    /\ \A i \in 1..Len(r.trace) :
                            r.trace[i][1] \in {"CanInitialize", "Initialize"} => i > first - 1
                    /\ \A i \in 1..Len(r.trace) :
                            (r.trace[i][1] \in {"CanInitialize", "Initialize"} /\ self)
                                => i > first

\* the current binding of a target makes a T3 and carries a callback that
\* answers true, an initializer that takes a T3 is registered: the resolve
\* makes the four calls callback, GodiInit, CanInitialize, Initialize; and
\* another binding carries a callback that answers false
C21_Witness ==
    /\ \E target \in TargetVals :
        LET r == ctxResolve(currentContext, target, heapTop)
        IN  /\ r.reg # 0
            /\ r.created
            /\ regs[r.reg].initializer = "continue"
            /\ Len(r.trace) = 4
            /\ r.trace[2][1] = "GodiInit"
            /\ r.trace[4][1] = "Initialize"
    /\ \E target \in TargetVals :
        LET r == ctxResolve(currentContext, target, heapTop)
        IN  r.reg # 0 /\ r.created /\ regs[r.reg].initializer = "stop"

\* the calls of a trace made to registered initializers
IsAsk(e) == e[1] = "CanInitialize"

IsInitialize(e) == e[1] = "Initialize"

\* the first initializer of a list that takes the type, 0 if none does
FirstTaker(l, typeName) ==
    IF \E i \in 1..Len(l) : CanInitialize(l[i], typeName)
    THEN CHOOSE i \in 1..Len(l) :
            /\ CanInitialize(l[i], typeName)
            /\ \A j \in 1..(i - 1) : ~CanInitialize(l[j], typeName)
    ELSE 0

RECURSIVE ExpectedAsks(_, _)
\* the initializers to be asked from scope q upwards, in order, and the one,
\* if any, that initializes
ExpectedAsks(q, typeName) ==
    LET l == contexts[q].initializers
        k == FirstTaker(l, typeName)
    IN  IF k # 0 THEN [asks |-> SubSeq(l, 1, k), init |-> l[k]]
        ELSE IF contexts[q].parent = NilContext THEN [asks |-> l, init |-> ""]
        ELSE LET up == ExpectedAsks(contexts[q].parent, typeName)
             IN  [up EXCEPT !.asks = l \o @]

\* C22: when the initialization of a created instance reaches the registered
\* initializers, the scope of the binding is asked first, then its parent,
\* up to the root, each list in its order, and the first initializer that
\* answers CanInitialize true ends it: nobody is asked after it, it is the
\* only one applied, and what it returns (the instance, another object, an
\* error) is what the resolve returns.  When nobody takes the type, all are
\* asked, none is applied and the instance is returned with no error.
C22_FirstTakerEndsTheChain ==
    \A p \in Scopes, target \in TargetVals :
        LET r == ctxResolve(p, target, heapTop)
        IN  (/\ r.reg # 0
             /\ r.created
             /\ regs[r.reg].initializer \in {NoCallback, "continue", "continueErr"}) =>
                LET e == ExpectedAsks(r.ctx, regs[r.reg].implType.typeName)
                    asks == SelectSeq(r.trace, IsAsk)
                    applied == SelectSeq(r.trace, IsInitialize)
                IN  /\ asks = [i \in 1..Len(e.asks) |-> <<"CanInitialize", e.asks[i]>>]
                    /\ IF e.init = ""
                       THEN /\ applied = <<>>
                            /\ r.kind = "ok"
                            /\ r.obj = heapTop + 1
                       ELSE /\ applied = << <<"Initialize", e.init>> >>
                            /\ r.trace[Len(r.trace)] = <<"Initialize", e.init>>
                            /\ InitializeResult(e.init) = "same" =>
                                    (r.kind = "ok" /\ r.obj = heapTop + 1)
                            /\ InitializeResult(e.init) = "replace" =>
                                    (r.kind = "ok" /\ r.obj = heapTop + 2)
                            /\ InitializeResult(e.init) = "error" =>
                                    (r.kind = "error" /\ r.err = "InitializerError"
                                        /\ r.obj = 0)

\* a scope below the root holds a binding and an initializer that takes the
\* binding's type, an ancestor holds another initializer that takes it too:
\* the resolve on the scope creates the instance and applies the scope's own
C22_Witness ==
    \E p \in Handles, target \in TargetVals :
        LET r == ctxResolve(p, target, heapTop)
        IN  /\ r.reg # 0
            /\ r.created
            /\ r.ctx = p
            /\ contexts[p].initializers # <<>>
            /\ contexts[contexts[p].parent].initializers # <<>>
            /\ CanInitialize(contexts[p].initializers[1], regs[r.reg].implType.typeName)
            /\ CanInitialize(contexts[contexts[p].parent].initializers[1],
                             regs[r.reg].implType.typeName)
            /\ contexts[p].initializers[1] # contexts[contexts[p].parent].initializers[1]
            /\ SelectSeq(r.trace, IsInitialize)
                    = << <<"Initialize", contexts[p].initializers[1]>> >>

IsCallback(e) == e[1] = "callback"

IsGodiInit(e) == e[1] = "GodiInit"

\* C23: in the resolve that creates an instance the callback of the binding
\* is called exactly once (never when the binding has none) and GodiInit at
\* most once, at whatever depth the binding's scope is and whether or not
\* the parent's initializers are consulted.
C23_CallbackOncePerInstance ==
    \A p \in Scopes, target \in TargetVals :
        LET r == ctxResolve(p, target, heapTop)
        IN  (r.reg # 0 /\ r.created) =>
                /\ Len(SelectSeq(r.trace, IsCallback))
                        = IF regs[r.reg].initializer = NoCallback THEN 0 ELSE 1
                /\ Len(SelectSeq(r.trace, IsGodiInit)) <= 1

\* C24: an error that is not fatal is the error result of the resolve: when
\* the callback of the created instance returns an error with
\* shouldContinue = true the resolve returns an error, and when the
\* initializer that takes the instance returns an error the resolve returns
\* that error.
C24_OrdinaryErrorsReturned ==
    \A target \in TargetVals :
        LET r == ctxResolve(currentContext, target, heapTop)
        IN  (r.reg # 0 /\ r.created /\ r.kind # "panic") =>
                /\ regs[r.reg].initializer = "continueErr" =>
                        (r.kind = "error" /\ r.obj = 0)
                /\ (\E i \in 1..Len(r.trace) :
                        /\ r.trace[i][1] = "Initialize"
                        /\ InitializeResult(r.trace[i][2]) = "error") =>
                        (r.kind = "error" /\ r.err = "InitializerError" /\ r.obj = 0)

\* C25: a resolve that fails leaves the registrations and their instances as
\* they were, and the same resolve made next fails too: it returns no
\* instance.
C25_FailedResolveRepeats ==
    [][\A target \in TargetVals :
        \A first \in {ctxResolve(currentContext, target, heapTop)} :
            /\ first.kind = "error" => first.regs = regs
            /\ (/\ first.kind = "error"
                /\ first.err = "InitializerError"
                /\ regs' = first.regs
                /\ heapTop' = first.top
                /\ heapTop' > heapTop) =>
                    /\ ctxResolve(currentContext, target, heapTop)'.kind = "error"
                    /\ ctxResolve(currentContext, target, heapTop)'.obj = 0
      ]_vars

\* C26: every binding in the list of a scope has an implementor whose type,
\* or the pointer to it, implements the binding's target, whichever call
\* registered it; so the binding a resolve returns an object of implements
\* the target asked for.
C26_BindingsImplementTheirTarget ==
    /\ \A p \in Scopes, name \in Names :
        \A i \in 1..Len(ListOf(p, name)) :
            LET reg == regs[ListOf(p, name)[i]]
            IN  /\ reg.targetType.typeName = name
                /\ ensureImplementor(reg.implType.typeName, name)
    /\ \A target \in TargetVals :
        LET r == ctxResolve(currentContext, target, heapTop)
        IN  (r.kind = "ok" /\ r.reg # 0) =>
                ensureImplementor(regs[r.reg].implType.typeName,
                                  typeToString(instanceToType(target)))

\* a Resolve is in the loop over the initializers of scope p and holds
\* nothing of p's rwlock
IteratingUnlocked(c, p) ==
    /\ AtOn(c, "Resolve", "iterate")
    /\ callers[c].ctx = p
    /\ callers[c].rwlock = "none"

\* C27: the initializer list of a scope is not modified (by
\* RegisterInstanceInitializer, by Reset) while a Resolve of another
\* goroutine is in its loop over that list without the scope's rwlock.
C27_NoWriteWhileIterating ==
    [][\A p \in Scopes :
        contexts'[p].initializers # contexts[p].initializers =>
            ~\E c \in Goroutines : IteratingUnlocked(c, p)
      ]_vars

\* C28: of the Resolve calls running on one cached binding, none returns the
\* instance before the initialization started by the goroutine that created
\* it has ended: while the creator has calls of the protocol still to make
\* on the instance, no other goroutine has returned it.
C28_NoReturnBeforeInitialized ==
    \A a \in Goroutines, b \in Goroutines :
        (/\ a # b
         /\ callers[a].created
         /\ callers[a].pc # "done"
         /\ initializeInstance(callers[a].ctx, callers[a].instance,
                               regs[callers[a].reg], heapTop).trace # <<>>) =>
            ~(/\ callers[b].pc = "done"
              /\ callers[b].kind = "ok"
              /\ callers[b].result = callers[a].instance)

\* C29: a resolve leaves the lock of the binding it materializes free,
\* whether it returns or halts with UninitializedTypeReference, for a
\* cached binding as for one that is not; and no resolve waits for a
\* binding's lock for ever.
C29_RealizeLeavesLockFree ==
    \A target \in TargetVals :
        LET r == ctxResolve(currentContext, target, heapTop)
        IN  /\ r.kind # "blocked"
            /\ r.reg # 0 => r.regs[r.reg].lock = NoLock

\* C30: two distinct bindings have distinct ids, also when they are
\* registered from several goroutines; and the Close of a binding's token
\* removes no other binding from any list.
C30_DistinctIds ==
    /\ \A j \in DOMAIN regs, k \in DOMAIN regs : j # k => regs[j].id # regs[k].id
    /\ \A k \in DOMAIN tokens :
        \A p \in Scopes, name \in Names :
            \A i \in 1..Len(contexts[p].registrations[name]) :
                LET j == contexts[p].registrations[name][i]
                    after == TokenCloseResult(k).contexts[p].registrations[name]
                IN  j # k => \E n \in 1..Len(after) : after[n] = j

====
